---- MODULE Spec2Model ----
(***************************************************************************)
(* Model of the Guppy session of src/src/guppy.c: the request/ack/chunk    *)
(* client (open_Guppy, cancel_Guppy, processResponse_Guppy), its chunk     *)
(* reassembly (storeChunk_Guppy_, processChunks_Guppy_) and its retry      *)
(* timer callback (retryGuppy_).                                           *)
(***************************************************************************)
EXTENDS Integers, Sequences, FiniteSets, TLC

(* ------------------------------ bounds -------------------------------- *)
\* Number of elements of d->chunks (the array is declared in guppy.h).
NumChunks == 2
\* Highest chunk sequence number the remote end uses.
MaxSeq == 9
\* Sequence number of the end-of-stream packet of the remote end's stream.
StreamLast == 11
\* The clock (SDL_GetTicks64) is followed up to this many milliseconds.
MaxNow == 7000
\* The timeout audience is followed up to this many notifications.
MaxTimeouts == 2
\* The clock of the two-thread specification runs in steps up to here.
MaxRaceNow == 1500

(* ------------------------- program constants -------------------------- *)
INT_MAX == 2147483647
TimeoutMs == 6000
RequestRetryMs == 1000
AckRetryMs == 500
TimerIntervalMs == 100
FirstChunkSeq == 6

\* The clock is sampled every AckRetryMs, the smallest of the three delays.
ClockStep == AckRetryMs

(* ------------------------------- text --------------------------------- *)
CR == "CR"
LF == "LF"
CRLF == <<CR, LF>>
Digits == <<"0", "1", "2", "3", "4", "5", "6", "7", "8", "9">>

IsDigit(c) == \E i \in 1..10 : Digits[i] = c
DigitVal(c) == (CHOOSE i \in 1..10 : Digits[i] = c) - 1

\* "%d" of a non-negative int, as collectNewFormat_String renders it.
RECURSIVE FormatInt(_)
FormatInt(n) ==
    IF n < 10 THEN <<Digits[n + 1]>>
    ELSE FormatInt(n \div 10) \o <<Digits[(n % 10) + 1]>>

\* toInt_String of a string of decimal digits is atoi, that is (int) strtol:
\* the decimal value as a long (64 bits, LONG_MAX when the digits exceed
\* it), cut to the 32 bits of a C int. The long is kept as four limbs of 16
\* bits, lowest first, and a flag for the excess.
LimbBase == 65536
StrtolStep(acc, dig) ==
    LET a0 == acc.l[1] * 10 + dig
        a1 == acc.l[2] * 10 + a0 \div LimbBase
        a2 == acc.l[3] * 10 + a1 \div LimbBase
        a3 == acc.l[4] * 10 + a2 \div LimbBase
    IN  [l    |-> <<a0 % LimbBase, a1 % LimbBase, a2 % LimbBase, a3 % LimbBase>>,
         over |-> acc.over \/ a3 >= LimbBase \div 2]
RECURSIVE StrtolLimbs(_, _, _)
StrtolLimbs(s, i, acc) ==
    IF i > Len(s) THEN acc
    ELSE StrtolLimbs(s, i + 1,
                     CHOOSE r \in {StrtolStep(a, DigitVal(s[i])) : a \in {acc}} : TRUE)
toInt_String(s) ==
    LET v == CHOOSE r \in {StrtolLimbs(s, 1, [l |-> <<0, 0, 0, 0>>, over |-> FALSE])} : TRUE
    IN  IF v.over THEN -1
        ELSE IF v.l[2] >= LimbBase \div 2
        THEN (v.l[2] - LimbBase) * LimbBase + v.l[1]
        ELSE v.l[2] * LimbBase + v.l[1]

\* indexOfCStr_String(&header, "\r\n"): position (from 1) of the first CR LF,
\* 0 for iInvalidPos.
indexOfCRLF(s) ==
    LET hits == {i \in 1..(Len(s) - 1) : s[i] = CR /\ s[i + 1] = LF}
    IN  IF hits = {} THEN 0 ELSE CHOOSE i \in hits : \A j \in hits : i <= j

\* new_RegExp("^([0-9]+)(.*)", 0): the greedy run of leading digits.
RECURSIVE DigitPrefixLen(_)
DigitPrefixLen(s) ==
    IF Len(s) = 0 \/ ~IsDigit(Head(s)) THEN 0 ELSE 1 + DigitPrefixLen(Tail(s))

\* The pattern is compiled without options, so "." does not match a line
\* feed: the second group ends before the first LF after the digits.
matchString_RegExp(header) ==
    LET k   == DigitPrefixLen(header)
        lfs == {i \in (k + 1)..Len(header) : header[i] = LF}
        end == IF lfs = {} THEN Len(header)
               ELSE (CHOOSE i \in lfs : \A j \in lfs : i <= j) - 1
    IN  [ok   |-> k > 0,
         cap1 |-> SubSeq(header, 1, k),
         cap2 |-> SubSeq(header, k + 1, end)]

\* The url of the session; request_Guppy_ writes "%s\r\n" of it.
Url == <<"u">>
RequestLine == Url \o CRLF
\* ack_Guppy_ writes "%d\r\n" of the sequence number.
AckLine(seq) == FormatInt(seq) \o CRLF

(* ------------------------------ inputs -------------------------------- *)
\* Payload bytes the remote end sends in the chunk numbered n.
Data(n) == <<"#">> \o FormatInt(n)
Metas == {<<>>, <<" ", "m">>}
StatusCodes == 0..(FirstChunkSeq - 1)
ChunkSeqs == FirstChunkSeq..MaxSeq

Packet(header, payload) == header \o CRLF \o payload

\* Status lines, with and without free text.
StatusPackets == {Packet(FormatInt(c) \o m, <<>>) : c \in StatusCodes, m \in Metas}
\* Chunk n as the remote end sends it: data, or the empty end-of-stream packet.
ChunkPackets(n) == {Packet(FormatInt(n), p) : p \in {<<>>, Data(n)}}
\* A first packet: sequence number, free text (the MIME type), data.
MetaChunkPackets(n) == {Packet(FormatInt(n) \o <<" ", "m">>, Data(n))}
AllChunkPackets == UNION {ChunkPackets(n) \cup MetaChunkPackets(n) : n \in ChunkSeqs}
\* An empty read, a read without CR LF, a header that does not start with a digit.
BadPackets == {<<>>, <<"7">>, Packet(<<"x">>, <<>>)}
\* Numbers that do not fit a C int: INT_MAX + 1, 2^32 + 1 and 2^32 + 6.
IntMaxPlus1 == <<"2", "1", "4", "7", "4", "8", "3", "6", "4", "8">>
WrapsTo1 == <<"4", "2", "9", "4", "9", "6", "7", "2", "9", "7">>
WrapsTo6 == <<"4", "2", "9", "4", "9", "6", "7", "3", "0", "2">>
WideNumerals == {IntMaxPlus1, WrapsTo1, WrapsTo6}
\* What a peer may also send: a header with a number beyond a C int, and a
\* status line whose free text holds a lone line feed.
EdgePackets ==
    {Packet(w, <<"#">> \o w) : w \in WideNumerals}
        \cup {Packet(<<"1", " ", "m", LF, "x">>, <<>>)}
Inputs == StatusPackets \cup AllChunkPackets \cup BadPackets \cup EdgePackets
\* The stream of an orderly remote end: the first packet carries the free
\* text, every chunk has its one payload, the last packet is empty.
StreamSeqs == FirstChunkSeq..StreamLast
StreamPayload(n) == IF n = StreamLast THEN <<>> ELSE Data(n)
StreamHeader(n) ==
    FormatInt(n) \o (IF n = FirstChunkSeq THEN <<" ", "m">> ELSE <<>>)
StreamPacket(n) == Packet(StreamHeader(n), StreamPayload(n))
StreamInputs == {StreamPacket(n) : n \in StreamSeqs}
\* The reads followed while the clock runs: a status line, a read without a
\* header, a first packet and two end-of-stream packets.
TimedInputs ==
    {Packet(<<"1", " ", "m">>, <<>>), <<"7">>}
        \cup MetaChunkPackets(FirstChunkSeq)
        \cup {Packet(FormatInt(FirstChunkSeq + 1), <<>>),
              Packet(FormatInt(FirstChunkSeq + 2), <<>>)}

(* ------------------------------- state -------------------------------- *)
VARIABLES
    d,            \* the iGuppy object
    now,          \* SDL_GetTicks64()
    sdlTimer,     \* interval of the SDL timer scheduled for retryGuppy_, 0: none
    mtx,          \* holder of d->mtx: "free", "timer"
    timeouts,     \* number of notifications sent to the timeout audience
    sent,         \* lines written to the socket by the last step
    notifyUpdate, \* *notifyUpdate as left by the last processResponse_Guppy
    tick,         \* position and locals of a running retryGuppy_
    proc          \* position and locals of the caller inside a call on the object

vars == <<d, now, sdlTimer, mtx, timeouts, sent, notifyUpdate, tick, proc>>

TimerId == 1
EmptyChunk == [seq |-> 0, data |-> <<>>]
Slots == 0..(NumChunks - 1)

\* init_Guppy. The caller sets url, socket, body, meta and mtx.
init_Guppy ==
    [state      |-> "none",
     meta       |-> <<>>,
     body       |-> <<>>,
     timer      |-> 0,
     firstSent  |-> 0,
     lastSent   |-> 0,
     chunks     |-> [i \in Slots |-> EmptyChunk],
     firstSeq   |-> 0,
     lastSeq    |-> 0,
     currentSeq |-> 0]

IdleTick ==
    [pc |-> "idle", now |-> 0, seq |-> 0, interval |-> 0, removed |-> FALSE]
IdleProc == [pc |-> "idle", raw |-> <<>>, now |-> 0, i |-> 0, again |-> FALSE]

Init ==
    /\ d = init_Guppy
    /\ now = ClockStep
    /\ sdlTimer = 0
    /\ mtx = "free"
    /\ timeouts = 0
    /\ sent = <<>>
    /\ notifyUpdate = FALSE
    /\ tick = IdleTick
    /\ proc = IdleProc

(* ------------------------- chunk reassembly --------------------------- *)
\* The for loop of storeChunk_Guppy_ as it would be without the test for a
\* slot that already holds seq.
RECURSIVE ScanChunks_NoDuplicateTest(_, _, _, _, _, _)
ScanChunks_NoDuplicateTest(dd, seq, i, slot, maxSeq, maxSeqSlot) ==
    IF i >= NumChunks
    THEN [found |-> FALSE, slot |-> slot, maxSeqSlot |-> maxSeqSlot]
    ELSE LET usable == \/ dd.chunks[i].seq = 0
                       \/ (dd.firstSeq > 0 /\ dd.chunks[i].seq < dd.firstSeq)
                       \/ (dd.lastSeq > 0 /\ dd.chunks[i].seq > dd.lastSeq)
             slot1  == IF slot < 0 /\ usable THEN i ELSE slot
             higher == dd.chunks[i].seq > maxSeq
         IN  ScanChunks_NoDuplicateTest(dd, seq, i + 1, slot1,
                        IF higher THEN dd.chunks[i].seq ELSE maxSeq,
                        IF higher THEN i ELSE maxSeqSlot)

\* The for loop of storeChunk_Guppy_ from slot i on: it stops at a slot that
\* holds seq, notes the first slot that is free or outside the window, and
\* the slot holding the highest sequence number.
RECURSIVE ScanChunks(_, _, _, _, _, _)
ScanChunks(dd, seq, i, slot, maxSeq, maxSeqSlot) ==
    IF i >= NumChunks
    THEN [found |-> FALSE, slot |-> slot, maxSeqSlot |-> maxSeqSlot]
    ELSE IF dd.chunks[i].seq = seq
    THEN [found |-> TRUE, slot |-> slot, maxSeqSlot |-> maxSeqSlot]
    ELSE LET usable == \/ dd.chunks[i].seq = 0
                       \/ (dd.firstSeq > 0 /\ dd.chunks[i].seq < dd.firstSeq)
                       \/ (dd.lastSeq > 0 /\ dd.chunks[i].seq > dd.lastSeq)
             slot1  == IF slot < 0 /\ usable THEN i ELSE slot
             higher == dd.chunks[i].seq > maxSeq
         IN  ScanChunks(dd, seq, i + 1, slot1,
                        IF higher THEN dd.chunks[i].seq ELSE maxSeq,
                        IF higher THEN i ELSE maxSeqSlot)

\* storeChunk_Guppy_ as it would be without the test against lastSeq.
storeChunk_Guppy_NoUpperBound(dd, seq, data) ==
    LET d1 == IF dd.firstSeq = 0 /\ seq < INT_MAX
              THEN [dd EXCEPT !.firstSeq = seq] ELSE dd
    IN  IF d1.lastSeq = 0 /\ Len(data) = 0
        THEN [d1 EXCEPT !.lastSeq = seq]
        ELSE IF \/ (d1.currentSeq # 0 /\ seq <= d1.currentSeq)
                \/ (d1.firstSeq # 0 /\ seq < d1.firstSeq)
        THEN d1
        ELSE LET r    == ScanChunks(d1, seq, 0, -1, -1, -1)
                 slot == IF seq = d1.firstSeq /\ r.slot < 0
                         THEN r.maxSeqSlot ELSE r.slot
             IN  IF ~r.found /\ slot >= 0
                 THEN [d1 EXCEPT !.chunks[slot] = [seq |-> seq, data |-> data]]
                 ELSE d1

\* storeChunk_Guppy_ as it would be if a later end-of-stream packet
\* replaced lastSeq.
storeChunk_Guppy_LastOverwritten(dd, seq, data) ==
    LET d1 == IF dd.firstSeq = 0 /\ seq < INT_MAX
              THEN [dd EXCEPT !.firstSeq = seq] ELSE dd
    IN  IF Len(data) = 0
        THEN [d1 EXCEPT !.lastSeq = seq]
        ELSE IF \/ (d1.currentSeq # 0 /\ seq <= d1.currentSeq)
                \/ (d1.firstSeq # 0 /\ seq < d1.firstSeq)
                \/ (d1.lastSeq # 0 /\ seq > d1.lastSeq)
        THEN d1
        ELSE LET r    == ScanChunks(d1, seq, 0, -1, -1, -1)
                 slot == IF seq = d1.firstSeq /\ r.slot < 0
                         THEN r.maxSeqSlot ELSE r.slot
             IN  IF ~r.found /\ slot >= 0
                 THEN [d1 EXCEPT !.chunks[slot] = [seq |-> seq, data |-> data]]
                 ELSE d1

\* storeChunk_Guppy_ as it would be without the return after the first
\* end-of-stream packet: the empty chunk goes on to the slots.
storeChunk_Guppy_TerminatorStored(dd, seq, data) ==
    LET d0 == IF dd.firstSeq = 0 /\ seq < INT_MAX
              THEN [dd EXCEPT !.firstSeq = seq] ELSE dd
        d1 == IF d0.lastSeq = 0 /\ Len(data) = 0
              THEN [d0 EXCEPT !.lastSeq = seq] ELSE d0
    IN  IF \/ (d1.currentSeq # 0 /\ seq <= d1.currentSeq)
           \/ (d1.firstSeq # 0 /\ seq < d1.firstSeq)
           \/ (d1.lastSeq # 0 /\ seq > d1.lastSeq)
        THEN d1
        ELSE LET r    == ScanChunks(d1, seq, 0, -1, -1, -1)
                 slot == IF seq = d1.firstSeq /\ r.slot < 0
                         THEN r.maxSeqSlot ELSE r.slot
             IN  IF ~r.found /\ slot >= 0
                 THEN [d1 EXCEPT !.chunks[slot] = [seq |-> seq, data |-> data]]
                 ELSE d1

\* storeChunk_Guppy_ as it would be without the eviction of the slot that
\* holds the highest number.
storeChunk_Guppy_NoEviction(dd, seq, data) ==
    LET d1 == IF dd.firstSeq = 0 /\ seq < INT_MAX
              THEN [dd EXCEPT !.firstSeq = seq] ELSE dd
    IN  IF d1.lastSeq = 0 /\ Len(data) = 0
        THEN [d1 EXCEPT !.lastSeq = seq]
        ELSE IF \/ (d1.currentSeq # 0 /\ seq <= d1.currentSeq)
                \/ (d1.firstSeq # 0 /\ seq < d1.firstSeq)
                \/ (d1.lastSeq # 0 /\ seq > d1.lastSeq)
        THEN d1
        ELSE LET r == ScanChunks(d1, seq, 0, -1, -1, -1)
             IN  IF ~r.found /\ r.slot >= 0
                 THEN [d1 EXCEPT !.chunks[r.slot] = [seq |-> seq, data |-> data]]
                 ELSE d1

\* storeChunk_Guppy_(d, seq, data, size): the session after the call.
storeChunk_Guppy_(dd, seq, data) ==
    LET d1 == IF dd.firstSeq = 0 /\ seq < INT_MAX
              THEN [dd EXCEPT !.firstSeq = seq] ELSE dd
    IN  IF d1.lastSeq = 0 /\ Len(data) = 0
        THEN [d1 EXCEPT !.lastSeq = seq]
        ELSE IF \/ (d1.currentSeq # 0 /\ seq <= d1.currentSeq)
                \/ (d1.firstSeq # 0 /\ seq < d1.firstSeq)
                \/ (d1.lastSeq # 0 /\ seq > d1.lastSeq)
        THEN d1
        ELSE LET r    == ScanChunks(d1, seq, 0, -1, -1, -1)
                 slot == IF seq = d1.firstSeq /\ r.slot < 0
                         THEN r.maxSeqSlot ELSE r.slot
             IN  IF ~r.found /\ slot >= 0
                 THEN [d1 EXCEPT !.chunks[slot] = [seq |-> seq, data |-> data]]
                 ELSE d1

\* A plausible slip: any newer chunk is taken for the next one.
IsNextChunk_AnyNewer(dd, i) ==
    dd.chunks[i].seq # 0 /\ dd.chunks[i].seq > dd.currentSeq

\* The test of processChunks_Guppy_: slot i holds the chunk to append next.
IsNextChunk(dd, i) ==
    \/ (dd.currentSeq # 0 /\ dd.currentSeq < INT_MAX
            /\ dd.chunks[i].seq = dd.currentSeq + 1)
    \/ (dd.currentSeq = 0 /\ dd.firstSeq > 0
            /\ dd.chunks[i].seq = dd.firstSeq)

\* One pass of the for loop of processChunks_Guppy_ from slot i on.
RECURSIVE AppendPass(_, _, _, _)
AppendPass(dd, i, again, notify) ==
    IF i >= NumChunks
    THEN [d |-> dd, again |-> again, notify |-> notify]
    ELSE IF IsNextChunk(dd, i)
    THEN AppendPass([dd EXCEPT !.body = @ \o dd.chunks[i].data,
                               !.currentSeq = dd.chunks[i].seq,
                               !.chunks[i] = EmptyChunk],
                    i + 1, i < NumChunks - 1, TRUE)
    ELSE AppendPass(dd, i + 1, again, notify)

\* The do/while loop of processChunks_Guppy_.
RECURSIVE AppendLoop(_, _)
AppendLoop(dd, notify) ==
    LET r == AppendPass(dd, 0, FALSE, notify)
    IN  IF r.again THEN AppendLoop(r.d, r.notify)
        ELSE [d |-> r.d, notify |-> r.notify]

\* processChunks_Guppy_(d, notifyUpdate): the session and *notifyUpdate after.
processChunks_Guppy_(dd, notify) ==
    LET r == AppendLoop(dd, notify)
    IN  IF r.d.lastSeq # 0 /\ r.d.currentSeq = r.d.lastSeq - 1
        THEN [d |-> [r.d EXCEPT !.state = "finished"], notify |-> r.notify]
        ELSE r

\* cancel_Guppy as it would be if it also forgot the time of the first send.
cancel_Guppy_ClearsFirstSent(dd) == [dd EXCEPT !.timer = 0, !.firstSent = 0]

(* ------------------------- session operations ------------------------- *)
\* deinit_Guppy: the timer is removed (d->timer keeps its id), the data of
\* every slot is freed (the slot keeps its number), the audience is deleted.
deinit_Guppy(dd) ==
    [dd EXCEPT !.chunks = [i \in Slots |-> [seq |-> dd.chunks[i].seq, data |-> <<>>]]]

\* cancel_Guppy as it would be if it left d->timer set.
cancel_Guppy_KeepsTimerId(dd) == dd

\* cancel_Guppy: the object after the call (the SDL timer is removed too).
cancel_Guppy(dd) == [dd EXCEPT !.timer = 0]

\* open_Guppy as it would be if a new open forgot the first chunk's number.
open_Guppy_ResetsFirstSeq(dd, t) ==
    [dd EXCEPT !.state = "inProgress",
               !.lastSent = t,
               !.firstSent = IF dd.firstSent = 0 THEN t ELSE dd.firstSent,
               !.timer = IF dd.timer = 0 THEN TimerId ELSE dd.timer,
               !.firstSeq = 0]

\* open_Guppy at clock time t: the object after the call.
open_Guppy(dd, t) ==
    [dd EXCEPT !.state = "inProgress",
               !.lastSent = t,
               !.firstSent = IF dd.firstSent = 0 THEN t ELSE dd.firstSent,
               !.timer = IF dd.timer = 0 THEN TimerId ELSE dd.timer]

\* retryGuppy_'s test of the deadline on the clock value t it read.
Expired(dd, t) == t >= dd.firstSent + TimeoutMs

\* retryGuppy_'s tests of the time since the last send.
RequestDue(dd, t) == t >= dd.lastSent + RequestRetryMs
AckDue(dd, t) == t >= dd.lastSent + AckRetryMs

\* retryGuppy_ as it would be if the timeout branch returned the timer's
\* interval instead of 0.
ReturnValue_KeepsTimer(timedOut) == TimerIntervalMs

\* The value retryGuppy_ returns to SDL: 0, which removes the timer, after
\* the timeout notification, the interval of the next call otherwise.
ReturnValue(timedOut) == IF timedOut THEN 0 ELSE TimerIntervalMs

\* processResponse_Guppy from the header match to the end of the status
\* switch, for a read that holds a CR LF: the object, whether the header
\* matched, its number, and the payload that follows the CR LF.
ParseHeader(dd, raw) ==
    LET crlf    == indexOfCRLF(raw)
        header  == SubSeq(raw, 1, crlf - 1)
        m       == matchString_RegExp(header)
        seq     == toInt_String(m.cap1)
        meta    == IF Len(m.cap2) > 0
                   THEN SubSeq(m.cap2, 2, Len(m.cap2)) ELSE m.cap2
        d1      == IF ~m.ok THEN [dd EXCEPT !.state = "invalidResponse"]
                   ELSE IF dd.firstSeq # 0 THEN dd
                   ELSE IF seq = 0 \/ seq = 5
                   THEN [dd EXCEPT !.state = "invalidResponse"]
                   ELSE IF seq = 1
                   THEN [dd EXCEPT !.state = "inputRequired", !.meta = meta]
                   ELSE IF seq = 3
                   THEN [dd EXCEPT !.state = "redirect", !.meta = meta]
                   ELSE IF seq = 4
                   THEN [dd EXCEPT !.state = "error"]
                   ELSE [dd EXCEPT !.state = "inProgress", !.meta = meta]
    IN  [d       |-> d1,
         matched |-> m.ok,
         seq     |-> IF m.ok THEN seq ELSE -1,
         payload |-> SubSeq(raw, crlf + 2, Len(raw))]

\* A plausible slip: a read without CR LF is parsed too.
HasHeader_WithoutCRLF(raw) == Len(raw) > 0

\* Whether the read is parsed at all: it is not empty and holds a CR LF.
HasHeader(raw) == Len(raw) > 0 /\ indexOfCRLF(raw) # 0

\* Whether processResponse_Guppy acknowledges: the header matched, seq >= 6.
Acks(h) == h.matched /\ h.seq >= FirstChunkSeq

\* processResponse_Guppy reading raw from the socket at clock time t: the
\* object after the call, the lines written and *notifyUpdate. Each stage is
\* bound as a value (CHOOSE over a one-element set), so that it is computed
\* once however often the next stage reads it.
processResponse_Guppy(dd, raw, t) ==
    LET Return(c, acked) ==
            [d      |-> IF c.d.state # "inProgress"
                        THEN cancel_Guppy(c.d) ELSE c.d,
             sent   |-> acked,
             notify |-> c.notify]
        Chunks(s, acked) ==
            CHOOSE r \in {Return(c, acked) :
                              c \in {processChunks_Guppy_(s, FALSE)}} : TRUE
        Header(h) ==
            LET a == IF Acks(h) THEN [h.d EXCEPT !.lastSent = t] ELSE h.d
            IN  CHOOSE r \in
                    {Chunks(s, IF Acks(h) THEN <<AckLine(h.seq)>> ELSE <<>>) :
                        s \in {IF Acks(h) /\ a.state = "inProgress"
                               THEN storeChunk_Guppy_(a, h.seq, h.payload)
                               ELSE a}} : TRUE
    IN  IF HasHeader(raw)
        THEN CHOOSE r \in {Header(h) : h \in {ParseHeader(dd, raw)}} : TRUE
        ELSE Return([d |-> dd, notify |-> FALSE], <<>>)

(* ------------------------------ actions ------------------------------- *)
\* The caller's calls as single steps: they are the steps of the
\* specifications in which no timer callback runs.
Idle == tick.pc = "idle" /\ proc.pc = "idle"

\* The caller opens the session.
Open ==
    /\ proc.pc = "idle"
    /\ d' = open_Guppy(d, now)
    /\ sdlTimer' = IF d.timer = 0 THEN TimerIntervalMs ELSE sdlTimer
    /\ sent' = <<RequestLine>>
    /\ UNCHANGED <<now, mtx, timeouts, notifyUpdate, tick, proc>>

\* The caller cancels the session: the timer is removed, and SDL drops the
\* value that a callback already called returns.
Cancel ==
    /\ proc.pc = "idle"
    /\ d' = cancel_Guppy(d)
    /\ sdlTimer' = 0
    /\ tick' = IF tick.pc = "idle" THEN tick ELSE [tick EXCEPT !.removed = TRUE]
    /\ sent' = <<>>
    /\ UNCHANGED <<now, mtx, timeouts, notifyUpdate, proc>>

\* The caller is done with the session and calls deinit_Guppy, which first
\* removes the timer if d->timer is set.
DeinitTimer ==
    /\ proc.pc = "idle"
    /\ sdlTimer' = IF d.timer # 0 THEN 0 ELSE sdlTimer
    /\ tick' = IF d.timer # 0 /\ tick.pc # "idle"
               THEN [tick EXCEPT !.removed = TRUE] ELSE tick
    /\ proc' = [IdleProc EXCEPT !.pc = "deinitFree"]
    /\ sent' = <<>>
    /\ UNCHANGED <<d, now, mtx, timeouts, notifyUpdate>>

\* deinit_Guppy then frees the slots' data and deletes the audience; the
\* caller makes no call on the object afterwards.
DeinitFree ==
    /\ proc.pc = "deinitFree"
    /\ d' = deinit_Guppy(d)
    /\ proc' = [proc EXCEPT !.pc = "deinit"]
    /\ sent' = <<>>
    /\ UNCHANGED <<now, sdlTimer, mtx, timeouts, notifyUpdate, tick>>

Deinit == DeinitTimer \/ DeinitFree

\* The caller handles a read of raw from the socket of an opened session.
ProcessResponse(raw) ==
    /\ Idle
    /\ d.state # "none"
    /\ UNCHANGED <<now, mtx, timeouts, tick, proc>>
    /\ \E r \in {processResponse_Guppy(d, raw, now)} :
           /\ d' = r.d
           /\ sent' = r.sent
           /\ notifyUpdate' = r.notify
           /\ sdlTimer' = IF r.d.timer = 0 THEN 0 ELSE sdlTimer

Process == \E raw \in Inputs : ProcessResponse(raw)

\* The caller's operations on every read, at one instant of the clock.
Next == Open \/ Cancel \/ Deinit \/ Process
Spec == Init /\ [][Next]_vars

\* The caller's operations on the reads of an orderly remote end's stream,
\* which the transport may reorder, repeat and drop.
ProcessStream == \E raw \in StreamInputs : ProcessResponse(raw)
NextStream == Open \/ Cancel \/ ProcessStream
SpecStream == Init /\ [][NextStream]_vars

\* The same session when the remote end keeps sending every packet of its
\* stream again until it is acknowledged and the caller handles every read.
\* The last step handled packet n of the stream: it wrote the ack of n.
Delivered(n) == sent = <<AckLine(n)>>
NextStreamLive == Open \/ ProcessStream
SpecStreamLive ==
    /\ Init
    /\ [][NextStreamLive]_vars
    /\ WF_vars(Open)
    /\ \A n \in StreamSeqs : []<>Delivered(n)

(* ---------------- the timer thread and the caller's thread ------------ *)
\* retryGuppy_ runs on SDL's timer thread and open_Guppy, cancel_Guppy,
\* deinit_Guppy and processResponse_Guppy on the caller's thread. The
\* callback is one step for each of its reads of the object and the clock
\* and each of its writes; the caller's calls are split at their reads of
\* the clock and their writes to the socket and to the fields the callback
\* reads, in program order.
ConcInputs ==
    MetaChunkPackets(FirstChunkSeq)
        \cup {Packet(FormatInt(n), Data(n)) :
                  n \in (FirstChunkSeq + 1)..(FirstChunkSeq + 2)}
        \cup {Packet(<<"4">>, <<>>)}

\* What SDL does with the value the callback returns: it schedules the next
\* call after that interval or, on 0, removes the timer. SDL_RemoveTimer
\* cancels the timer: SDL does not call its callback again, and if one is
\* under way the value it returns changes nothing.
TimerAfter(interval) == IF tick.removed THEN sdlTimer ELSE interval

\* SDL's timer thread calls retryGuppy_ of a scheduled timer.
TickCall ==
    /\ tick.pc = "idle"
    /\ sdlTimer # 0
    /\ tick' = [IdleTick EXCEPT !.pc = "called"]
    /\ sent' = <<>>
    /\ UNCHANGED <<d, now, sdlTimer, mtx, timeouts, notifyUpdate, proc>>

\* retryGuppy_ takes d->mtx.
TickLock ==
    /\ tick.pc = "called"
    /\ mtx = "free"
    /\ mtx' = "timer"
    /\ tick' = [tick EXCEPT !.pc = "entered"]
    /\ sent' = <<>>
    /\ UNCHANGED <<d, now, sdlTimer, timeouts, notifyUpdate, proc>>

\* retryGuppy_ reads the clock: now = SDL_GetTicks64().
TickClock ==
    /\ tick.pc = "entered"
    /\ tick' = [tick EXCEPT !.pc = "deadline", !.now = now]
    /\ sent' = <<>>
    /\ UNCHANGED <<d, now, sdlTimer, mtx, timeouts, notifyUpdate, proc>>

\* retryGuppy_ reads d->firstSent and tests the deadline.
TickDeadline ==
    /\ tick.pc = "deadline"
    /\ tick' = [tick EXCEPT !.pc = IF Expired(d, tick.now) THEN "expired"
                                   ELSE "requestSeq"]
    /\ sent' = <<>>
    /\ UNCHANGED <<d, now, sdlTimer, mtx, timeouts, notifyUpdate, proc>>

\* retryGuppy_ on timeout: unlock_Mutex.
TickExpire ==
    /\ tick.pc = "expired"
    /\ mtx' = "free"
    /\ tick' = [tick EXCEPT !.pc = "notify"]
    /\ sent' = <<>>
    /\ UNCHANGED <<d, now, sdlTimer, timeouts, notifyUpdate, proc>>

\* retryGuppy_ on timeout, after the unlock: notify the audience. After
\* deinit_Guppy the audience is deleted: the notification reads freed memory
\* and may or may not reach an observer.
TickNotify ==
    /\ tick.pc = "notify"
    /\ timeouts < MaxTimeouts
    /\ timeouts' \in IF proc.pc = "deinit" THEN {timeouts, timeouts + 1}
                     ELSE {timeouts + 1}
    /\ tick' = [tick EXCEPT !.pc = "return", !.interval = ReturnValue(TRUE)]
    /\ sent' = <<>>
    /\ UNCHANGED <<d, now, sdlTimer, mtx, notifyUpdate, proc>>

\* retryGuppy_ reads d->firstSeq and, if it is 0, the socket's status.
TickRequestSeq ==
    /\ tick.pc = "requestSeq"
    /\ \E connected \in BOOLEAN :
         tick' = [tick EXCEPT !.pc = IF d.firstSeq = 0 /\ connected
                                     THEN "requestTime" ELSE "ackSeq"]
    /\ sent' = <<>>
    /\ UNCHANGED <<d, now, sdlTimer, mtx, timeouts, notifyUpdate, proc>>

\* retryGuppy_ reads d->lastSent for the request's period.
TickRequestTime ==
    /\ tick.pc = "requestTime"
    /\ tick' = [tick EXCEPT !.pc = IF RequestDue(d, tick.now)
                                   THEN "requestWrite" ELSE "ackSeq"]
    /\ sent' = <<>>
    /\ UNCHANGED <<d, now, sdlTimer, mtx, timeouts, notifyUpdate, proc>>

\* retryGuppy_ writes the request again.
TickRequestWrite ==
    /\ tick.pc = "requestWrite"
    /\ sent' = <<RequestLine>>
    /\ tick' = [tick EXCEPT !.pc = "stamp"]
    /\ UNCHANGED <<d, now, sdlTimer, mtx, timeouts, notifyUpdate, proc>>

\* retryGuppy_ reads d->currentSeq.
TickAckSeq ==
    /\ tick.pc = "ackSeq"
    /\ tick' = [tick EXCEPT !.pc = IF d.currentSeq # 0 THEN "ackTime"
                                   ELSE "unlock"]
    /\ sent' = <<>>
    /\ UNCHANGED <<d, now, sdlTimer, mtx, timeouts, notifyUpdate, proc>>

\* retryGuppy_ reads d->lastSent for the ack's period.
TickAckTime ==
    /\ tick.pc = "ackTime"
    /\ tick' = [tick EXCEPT !.pc = IF AckDue(d, tick.now) THEN "ackRead"
                                   ELSE "unlock"]
    /\ sent' = <<>>
    /\ UNCHANGED <<d, now, sdlTimer, mtx, timeouts, notifyUpdate, proc>>

\* retryGuppy_ reads d->currentSeq again, as the argument of ack_Guppy_.
TickAckRead ==
    /\ tick.pc = "ackRead"
    /\ tick' = [tick EXCEPT !.pc = "ackWrite", !.seq = d.currentSeq]
    /\ sent' = <<>>
    /\ UNCHANGED <<d, now, sdlTimer, mtx, timeouts, notifyUpdate, proc>>

\* ack_Guppy_ writes the ack of the number it was passed.
TickAckWrite ==
    /\ tick.pc = "ackWrite"
    /\ sent' = <<AckLine(tick.seq)>>
    /\ tick' = [tick EXCEPT !.pc = "stamp"]
    /\ UNCHANGED <<d, now, sdlTimer, mtx, timeouts, notifyUpdate, proc>>

\* retryGuppy_ after a resend: d->lastSent = now.
TickStamp ==
    /\ tick.pc = "stamp"
    /\ d' = [d EXCEPT !.lastSent = tick.now]
    /\ tick' = [tick EXCEPT !.pc = "unlock"]
    /\ sent' = <<>>
    /\ UNCHANGED <<now, sdlTimer, mtx, timeouts, notifyUpdate, proc>>

\* retryGuppy_ before the deadline: unlock_Mutex.
TickUnlock ==
    /\ tick.pc = "unlock"
    /\ mtx' = "free"
    /\ tick' = [tick EXCEPT !.pc = "return", !.interval = ReturnValue(FALSE)]
    /\ sent' = <<>>
    /\ UNCHANGED <<d, now, sdlTimer, timeouts, notifyUpdate, proc>>

\* retryGuppy_ returns its value to SDL.
TickReturn ==
    /\ tick.pc = "return"
    /\ sdlTimer' = TimerAfter(tick.interval)
    /\ tick' = IdleTick
    /\ sent' = <<>>
    /\ UNCHANGED <<d, now, mtx, timeouts, notifyUpdate, proc>>

\* open_Guppy sets the state and writes the request. It takes no lock.
OpenBegin ==
    /\ proc.pc = "idle"
    /\ d' = [d EXCEPT !.state = "inProgress"]
    /\ proc' = [IdleProc EXCEPT !.pc = "openClock"]
    /\ sent' = <<RequestLine>>
    /\ UNCHANGED <<now, sdlTimer, mtx, timeouts, notifyUpdate, tick>>

\* open_Guppy reads the clock for d->lastSent.
OpenClock ==
    /\ proc.pc = "openClock"
    /\ proc' = [proc EXCEPT !.pc = "openStamp", !.now = now]
    /\ sent' = <<>>
    /\ UNCHANGED <<d, now, sdlTimer, mtx, timeouts, notifyUpdate, tick>>

\* open_Guppy stores d->lastSent (and d->firstSent the first time), adds
\* the timer if there is none and returns.
OpenStamp ==
    /\ proc.pc = "openStamp"
    /\ d' = open_Guppy(d, proc.now)
    /\ sdlTimer' = IF d.timer = 0 THEN TimerIntervalMs ELSE sdlTimer
    /\ proc' = IdleProc
    /\ sent' = <<>>
    /\ UNCHANGED <<now, mtx, timeouts, notifyUpdate, tick>>

\* processResponse_Guppy reads the socket, matches the header and runs the
\* status switch. It takes no lock. The caller passes a cleared flag for
\* notifyUpdate.
ProcBegin(raw) ==
    /\ proc.pc = "idle"
    /\ d.state # "none"
    /\ IF HasHeader(raw)
       THEN \E h \in {ParseHeader(d, raw)} :
              /\ d' = h.d
              /\ proc' = [IdleProc EXCEPT !.pc = IF Acks(h) THEN "ack" ELSE "chunks",
                                          !.raw = raw]
       ELSE /\ d' = d
            /\ proc' = [IdleProc EXCEPT !.pc = "end", !.raw = raw]
    /\ sent' = <<>>
    /\ notifyUpdate' = FALSE
    /\ UNCHANGED <<now, sdlTimer, mtx, timeouts, tick>>

\* processResponse_Guppy writes the ack of the header's number.
ProcAck ==
    /\ proc.pc = "ack"
    /\ sent' = <<AckLine(ParseHeader(d, proc.raw).seq)>>
    /\ proc' = [proc EXCEPT !.pc = "clock"]
    /\ UNCHANGED <<d, now, sdlTimer, mtx, timeouts, notifyUpdate, tick>>

\* processResponse_Guppy reads the clock for d->lastSent.
ProcClock ==
    /\ proc.pc = "clock"
    /\ proc' = [proc EXCEPT !.pc = "stamp", !.now = now]
    /\ sent' = <<>>
    /\ UNCHANGED <<d, now, sdlTimer, mtx, timeouts, notifyUpdate, tick>>

\* processResponse_Guppy stores d->lastSent.
ProcStamp ==
    /\ proc.pc = "stamp"
    /\ d' = [d EXCEPT !.lastSent = proc.now]
    /\ proc' = [proc EXCEPT !.pc = "store", !.now = 0]
    /\ sent' = <<>>
    /\ UNCHANGED <<now, sdlTimer, mtx, timeouts, notifyUpdate, tick>>

\* processResponse_Guppy stores the chunk if the session is in progress.
ProcStore ==
    /\ proc.pc = "store"
    /\ \E h \in {ParseHeader(d, proc.raw)} :
         d' = IF d.state = "inProgress"
              THEN storeChunk_Guppy_(d, h.seq, h.payload) ELSE d
    /\ proc' = [proc EXCEPT !.pc = "chunks"]
    /\ sent' = <<>>
    /\ UNCHANGED <<now, sdlTimer, mtx, timeouts, notifyUpdate, tick>>

\* The first slot from i on that processChunks_Guppy_ appends, -1 if none.
NextAppend(dd, i) ==
    LET hits == {j \in i..(NumChunks - 1) : IsNextChunk(dd, j)}
    IN  IF hits = {} THEN -1 ELSE CHOOSE j \in hits : \A k \in hits : j <= k

\* processChunks_Guppy_ goes on scanning from slot proc.i to the next slot
\* it appends, starting the scan over when the pass just ended had set
\* again: one chunk is appended and currentSeq is set to its number.
ProcAppend ==
    /\ proc.pc = "chunks"
    /\ \E j \in {NextAppend(d, proc.i)} :
         \E k \in {IF j < 0 /\ proc.again THEN NextAppend(d, 0) ELSE j} :
             /\ k >= 0
             /\ d' = [d EXCEPT !.body = @ \o d.chunks[k].data,
                               !.currentSeq = d.chunks[k].seq,
                               !.chunks[k] = EmptyChunk]
             /\ proc' = [proc EXCEPT !.i = k + 1, !.again = k < NumChunks - 1]
    /\ notifyUpdate' = TRUE
    /\ sent' = <<>>
    /\ UNCHANGED <<now, sdlTimer, mtx, timeouts, tick>>

\* processChunks_Guppy_ finds nothing more to append, leaves its loop and
\* sets state to finished if the stream is complete.
ProcChunks ==
    /\ proc.pc = "chunks"
    /\ \E j \in {NextAppend(d, proc.i)} :
         \E k \in {IF j < 0 /\ proc.again THEN NextAppend(d, 0) ELSE j} :
             k < 0
    /\ d' = IF d.lastSeq # 0 /\ d.currentSeq = d.lastSeq - 1
            THEN [d EXCEPT !.state = "finished"] ELSE d
    /\ proc' = [proc EXCEPT !.pc = "end", !.i = 0, !.again = FALSE]
    /\ sent' = <<>>
    /\ UNCHANGED <<now, sdlTimer, mtx, timeouts, notifyUpdate, tick>>

\* processResponse_Guppy cancels a session that is not in progress and
\* returns.
ProcEnd ==
    /\ proc.pc = "end"
    /\ d' = IF d.state # "inProgress" THEN cancel_Guppy(d) ELSE d
    /\ sdlTimer' = IF d.state # "inProgress" THEN 0 ELSE sdlTimer
    /\ tick' = IF d.state # "inProgress" /\ tick.pc # "idle"
               THEN [tick EXCEPT !.removed = TRUE] ELSE tick
    /\ proc' = IdleProc
    /\ sent' = <<>>
    /\ UNCHANGED <<now, mtx, timeouts, notifyUpdate>>

\* The clock of the two threads: it runs in steps up to MaxRaceNow, and a
\* long quiet period takes it past the session's timeout.
AdvanceRace ==
    /\ \/ /\ now + ClockStep <= MaxRaceNow
          /\ now' = now + ClockStep
       \/ /\ now <= MaxRaceNow
          /\ now' = now + TimeoutMs
    /\ sent' = <<>>
    /\ UNCHANGED <<d, sdlTimer, mtx, timeouts, notifyUpdate, tick, proc>>

\* The clock in even steps up to MaxNow.
Advance ==
    /\ now + ClockStep <= MaxNow
    /\ now' = now + ClockStep
    /\ sent' = <<>>
    /\ UNCHANGED <<d, sdlTimer, mtx, timeouts, notifyUpdate, tick, proc>>

TickStep ==
    \/ TickCall
    \/ TickLock
    \/ TickClock
    \/ TickDeadline
    \/ TickExpire
    \/ TickNotify
    \/ TickRequestSeq
    \/ TickRequestTime
    \/ TickRequestWrite
    \/ TickAckSeq
    \/ TickAckTime
    \/ TickAckRead
    \/ TickAckWrite
    \/ TickStamp
    \/ TickUnlock
    \/ TickReturn
OpenStep == OpenBegin \/ OpenClock \/ OpenStamp
ProcRest ==
    \/ ProcAck
    \/ ProcClock
    \/ ProcStamp
    \/ ProcStore
    \/ ProcAppend
    \/ ProcChunks
    \/ ProcEnd
ProcStep == (\E raw \in ConcInputs : ProcBegin(raw)) \/ ProcRest
ProcessTimed == (\E raw \in TimedInputs : ProcBegin(raw)) \/ ProcRest

\* The two threads on a stream of data chunks.
NextConc ==
    OpenStep \/ Cancel \/ Deinit \/ TickStep \/ ProcStep \/ AdvanceRace
SpecConc == Init /\ [][NextConc]_vars

\* The two threads on status packets, malformed reads and the packets of a
\* short stream, while the clock runs.
NextTimed ==
    OpenStep \/ Cancel \/ Deinit \/ TickStep \/ ProcessTimed \/ AdvanceRace
SpecTimed == Init /\ [][NextTimed]_vars

\* A session that is opened once and then receives nothing: only the timer
\* callback runs while the clock advances. The session is followed from its
\* opening; SDL calls the callback of a scheduled timer again and again, and
\* the clock does not stop.
OpenOnce == (d.state = "none" /\ OpenBegin) \/ OpenClock \/ OpenStamp
AdvanceOpened == d.firstSent # 0 /\ Advance
\* The callback in that session: currentSeq stays 0, so it never gets to
\* the ack's period.
TickQuiet ==
    \/ TickCall
    \/ TickLock
    \/ TickClock
    \/ TickDeadline
    \/ TickExpire
    \/ TickNotify
    \/ TickRequestSeq
    \/ TickRequestTime
    \/ TickRequestWrite
    \/ TickAckSeq
    \/ TickStamp
    \/ TickUnlock
    \/ TickReturn
NextQuiet == OpenOnce \/ TickQuiet \/ AdvanceOpened
SpecQuiet ==
    /\ Init
    /\ [][NextQuiet]_vars
    /\ WF_vars(OpenOnce)
    /\ WF_vars(TickQuiet)
    /\ WF_vars(AdvanceOpened)

\* storeChunk_Guppy_ as a function of the object: a processResponse_Guppy
\* call is followed from its call of storeChunk_Guppy_, for each data chunk,
\* on each session in progress whose slots are all occupied by chunks that
\* are still to come. The object ranges over this set whether or not a
\* sequence of calls leads to it.
FullChunks(f) ==
    {ch \in [Slots -> {[seq |-> n, data |-> Data(n)] : n \in (f + 1)..MaxSeq}] :
         \A i, j \in Slots : i # j => ch[i].seq # ch[j].seq}
StoreObjectsOf(f) ==
    {[init_Guppy EXCEPT !.state = "inProgress",
                        !.timer = TimerId,
                        !.firstSent = ClockStep,
                        !.lastSent = ClockStep,
                        !.firstSeq = f,
                        !.currentSeq = c,
                        !.lastSeq = l,
                        !.body = IF c = 0 THEN <<>> ELSE Data(f),
                        !.chunks = ch] :
         c \in {0, f}, l \in {0, MaxSeq}, ch \in FullChunks(f)}
StoreObjects == StoreObjectsOf(FirstChunkSeq) \cup StoreObjectsOf(FirstChunkSeq + 1)
StorePackets == {Packet(FormatInt(n), Data(n)) : n \in ChunkSeqs}
InitStore ==
    /\ d \in StoreObjects
    /\ proc \in {[IdleProc EXCEPT !.pc = "store", !.raw = raw] :
                     raw \in StorePackets}
    /\ now = ClockStep
    /\ sdlTimer = TimerIntervalMs
    /\ mtx = "free"
    /\ timeouts = 0
    /\ sent = <<>>
    /\ notifyUpdate = FALSE
    /\ tick = IdleTick
NextStore == ProcStore \/ ProcAppend \/ ProcChunks \/ ProcEnd
SpecStore == InitStore /\ [][NextStore]_vars

(* ====================================================================== *)
(*                               Properties                               *)
(* ====================================================================== *)
Occupied(i) == d.chunks[i].seq # 0
Buffered == {d.chunks[i].seq : i \in {j \in Slots : Occupied(j)}}

\* The payloads of the stream's chunks lo..hi, in order.
RECURSIVE StreamBody(_, _)
StreamBody(lo, hi) ==
    IF lo > hi THEN <<>> ELSE StreamBody(lo, hi - 1) \o StreamPayload(hi)

\* C1: however the stream's packets arrive (reordered, repeated, dropped),
\* body is the payloads of the chunks firstSeq..currentSeq, in increasing
\* order of sequence number, each once, none missing; it is empty while
\* currentSeq is unset.
C1_BodyIsChunksInOrder ==
    d.body = IF d.currentSeq = 0 THEN <<>>
             ELSE StreamBody(d.firstSeq, d.currentSeq)

\* C1 witness: the stream's first packet was lost, three chunks were appended
\* and a later chunk waits in a slot behind a gap.
C1_Witness ==
    /\ d.firstSeq = FirstChunkSeq + 1
    /\ d.currentSeq = d.firstSeq + 2
    /\ Buffered # {}
    /\ d.body = Data(d.firstSeq) \o Data(d.firstSeq + 1) \o Data(d.firstSeq + 2)


\* C2: when the end-of-stream packet and every chunk firstSeq..lastSeq-1 are
\* delivered, in any order and as often as needed, the session eventually is
\* finished with body the payloads of the chunks firstSeq..lastSeq-1.
C2_EventuallyFinished ==
    <>(/\ d.state = "finished"
       /\ d.body = StreamBody(d.firstSeq, d.lastSeq - 1))


Terminal ==
    {"finished", "invalidResponse", "inputRequired", "redirect", "error",
     "timedOut"}
\* A processResponse_Guppy step on any read the model knows.
AnyProcess ==
    \E raw \in Inputs \cup StreamInputs \cup TimedInputs : ProcessResponse(raw)

\* C3: once state holds a terminal value, no processResponse_Guppy call and
\* no run of the timer callback changes it, whatever is read.
C3_TerminalStateKept ==
    [][(d.state \in Terminal /\ (AnyProcess \/ TickStep))
           => d'.state = d.state]_vars


\* C5: however open, cancel, processResponse_Guppy and the timer callback
\* follow each other, the timeout audience is notified at most once.
C5_AtMostOneTimeout == timeouts <= 1

\* Status lines with a code other than success.
NonSuccessPackets ==
    {Packet(FormatInt(c) \o m, <<>>) : c \in {0, 1, 3, 4, 5}, m \in Metas}
\* The session right after open and a first header that is such a line.
AfterNonSuccess ==
    \E raw \in NonSuccessPackets :
        d = processResponse_Guppy(open_Guppy(init_Guppy, now), raw, now).d

\* C9: after a first header that is a non-success status line, a later
\* processResponse_Guppy call leaves body, the three sequence numbers and
\* the slots as they are, whatever it reads.
C9_NoChunksAfterNonSuccess ==
    [][(AfterNonSuccess /\ AnyProcess)
           => /\ d'.body = d.body
              /\ d'.currentSeq = d.currentSeq
              /\ d'.firstSeq = d.firstSeq
              /\ d'.lastSeq = d.lastSeq
              /\ d'.chunks = d.chunks]_vars

\* The decimal numbers n >= 6 a header may carry: the sequence numbers of
\* all the input sets and the numbers beyond a C int.
ChunkNumerals == {FormatInt(n) : n \in ChunkSeqs} \cup WideNumerals
\* Every read whose header is the number num, with or without free text
\* and payload.
NumberedPackets(num) ==
    {Packet(num \o m, p) : m \in Metas, p \in {<<>>, <<"#">> \o num}}

\* C10: in every state an opened session reaches, a processResponse_Guppy
\* call whose header parses with n >= 6 writes the one line "n\r\n" and sets
\* lastSent to the clock; a call on an empty read, a read without CR LF, a
\* header that does not match or a number below 6 writes nothing.
C10_OneAckPerChunkHeader ==
    d.state # "none" =>
        /\ \A num \in ChunkNumerals :
               \A raw \in NumberedPackets(num) :
                   \E r \in {processResponse_Guppy(d, raw, now)} :
                       r.sent = <<num \o CRLF>> /\ r.d.lastSent = now
        /\ \A raw \in StatusPackets \cup BadPackets :
               processResponse_Guppy(d, raw, now).sent = <<>>


\* C4: if no inbound data is processed during the 6000 ms after the first
\* send, the timer callback raises the timeout notification exactly once
\* (it is raised, and never a second time), and after the notification no
\* request line and no acknowledgment is written to the connection.
C4_OneTimeoutThenSilence ==
    /\ <>(timeouts = 1)
    /\ [](timeouts <= 1)
    /\ [][timeouts >= 1 => sent' = <<>>]_vars
\* The quiet session after its timeout: notified once, the timer removed,
\* the clock past the deadline.
C4_Witness ==
    /\ d.state = "inProgress"
    /\ timeouts = 1
    /\ sdlTimer = 0
    /\ now > d.firstSent + TimeoutMs

\* C6: when every slot holds an out-of-order future chunk and the chunk
\* numbered firstSeq, which the session has not appended yet, then arrives,
\* storeChunk_Guppy_ stores it in the slot that held the highest number and
\* leaves the other slots alone: it is not dropped.
FirstChunkArrives ==
    /\ proc.pc = "store"
    /\ d.currentSeq = 0
    /\ ParseHeader(d, proc.raw).seq = d.firstSeq
    /\ \A i \in Slots : d.chunks[i].seq > d.firstSeq
C6_FirstChunkNeverDropped ==
    [][(FirstChunkArrives /\ ProcStore) =>
           \E m \in Slots :
               /\ \A i \in Slots : d.chunks[i].seq <= d.chunks[m].seq
               /\ d'.chunks =
                      [d.chunks EXCEPT
                           ![m] = [seq  |-> d.firstSeq,
                                   data |-> ParseHeader(d, proc.raw).payload]]]_vars
\* C6 witness: storeChunk_Guppy_ has returned; the chunk numbered firstSeq,
\* not yet appended, is in a slot and every other slot still holds a later
\* chunk. In SpecStore every slot was occupied by a later chunk at the call.
C6_Witness ==
    /\ proc.pc = "chunks"
    /\ proc.i = 0
    /\ d.currentSeq = 0
    /\ d.body = <<>>
    /\ \E m \in Slots :
         /\ d.chunks[m] = [seq |-> d.firstSeq, data |-> Data(d.firstSeq)]
         /\ \A i \in Slots \ {m} : d.chunks[i].seq > d.firstSeq

\* C7: buffer pressure never blocks progress: in an InProgress state whose
\* slots all hold in-window chunks, delivering the next chunk the session
\* needs (currentSeq + 1) is not without effect, it advances currentSeq. (A
\* delivery that changes neither currentSeq nor the slots leaves the same
\* situation for every later delivery.)
InWindow(seq) ==
    seq # 0 /\ seq >= d.firstSeq /\ (d.lastSeq = 0 \/ seq <= d.lastSeq)
SlotsFull == \A i \in Slots : InWindow(d.chunks[i].seq)
NextChunkPacket == Packet(FormatInt(d.currentSeq + 1), Data(d.currentSeq + 1))
C7_NextChunkAdmitted ==
    [][(/\ d.state = "inProgress"
        /\ d.currentSeq # 0
        /\ d.lastSeq = 0 \/ d.currentSeq + 1 < d.lastSeq
        /\ SlotsFull
        /\ ProcessResponse(NextChunkPacket))
       => (d'.currentSeq > d.currentSeq \/ d'.chunks # d.chunks)]_vars

\* C8: a timer callback and a processResponse_Guppy call never access the
\* session at the same time: while a processResponse_Guppy call is underway
\* no callback is between its lock and its unlock.
InCriticalSection == mtx = "timer"
InProcess == proc.pc \in {"ack", "clock", "stamp", "store", "chunks", "end"}
C8_ProcessExcludesTick == ~(InCriticalSection /\ InProcess)


\* C11: currentSeq never decreases, whatever operation runs, and whenever it
\* is set, firstSeq is set and not above it and body is the payloads of the
\* chunks firstSeq..currentSeq, in order and without a gap.
C11_CurrentSeqMonotonic ==
    [][/\ d'.currentSeq >= d.currentSeq
       /\ d'.currentSeq # 0 =>
              /\ d'.firstSeq # 0
              /\ d'.firstSeq <= d'.currentSeq
              /\ d'.body = StreamBody(d'.firstSeq, d'.currentSeq)]_vars
\* C11 witness: the first chunk and its successor were appended, the
\* successor from a slot where it waited, and a cancel and a new open later
\* the watermark is still there.
C11_Witness ==
    /\ d.state = "inProgress"
    /\ d.firstSeq = FirstChunkSeq
    /\ d.currentSeq = FirstChunkSeq + 2
    /\ d.body = Data(FirstChunkSeq) \o Data(FirstChunkSeq + 1)
                    \o Data(FirstChunkSeq + 2)
    /\ sent = <<RequestLine>>


\* A processResponse_Guppy step on a packet, with or without free text and
\* payload, whose number is at most currentSeq.
StaleDelivery ==
    \E n \in ChunkSeqs :
        /\ n <= d.currentSeq
        /\ \E raw \in NumberedPackets(FormatInt(n)) : ProcessResponse(raw)

\* C12: delivering a chunk whose sequence number is at most currentSeq is a
\* no-op on body and on the slots: after the processResponse_Guppy call that
\* carries it, body and every slot are as before the call.
C12_StaleChunkIsNoOp ==
    [][StaleDelivery => (d'.body = d.body /\ d'.chunks = d.chunks)]_vars


\* The payloads a packet numbered n can carry.
Payloads(n) == {<<>>, Data(n)}
\* The claim's bounds on a chunk numbered seq, in session dd.
Admissible(dd, seq) ==
    /\ seq > dd.currentSeq
    /\ dd.firstSeq = 0 \/ seq >= dd.firstSeq
    /\ dd.lastSeq = 0 \/ seq <= dd.lastSeq

\* C13: storeChunk_Guppy_ writes a chunk into a slot only if seq is above
\* currentSeq, firstSeq is unknown or not above seq, and lastSeq is unknown
\* or not below seq; a chunk outside these bounds changes no slot, and the
\* processResponse_Guppy call that carries it raises no error state (state
\* stays as it is or becomes finished).
C13_StoredOnlyInWindow ==
    d.state = "inProgress" =>
        \A seq \in ChunkSeqs : \A data \in Payloads(seq) :
            LET s == storeChunk_Guppy_(d, seq, data)
                r == processResponse_Guppy(d, Packet(FormatInt(seq), data), now)
            IN  /\ s.chunks # d.chunks =>
                       /\ Admissible(d, seq)
                       /\ \E i \in Slots : s.chunks[i] = [seq |-> seq, data |-> data]
                /\ ~Admissible(d, seq) =>
                       /\ s.chunks = d.chunks
                       /\ r.d.state \in {d.state, "finished"}
\* C13 witness: with both watermarks known, a chunk inside the window was
\* just written into a slot, behind a gap.
C13_Witness ==
    /\ d.state = "inProgress"
    /\ d.currentSeq # 0
    /\ d.lastSeq > d.currentSeq + 2
    /\ \E i \in Slots :
           /\ d.chunks[i].seq = d.currentSeq + 2
           /\ sent = <<AckLine(d.chunks[i].seq)>>


\* C14: in every reachable state no two occupied slots hold the same
\* sequence number, and every occupied slot holds a sequence number above
\* currentSeq (none that body already holds).
C14_SlotsDistinctAndPending ==
    /\ \A i, j \in Slots :
           (Occupied(i) /\ Occupied(j) /\ d.chunks[i].seq = d.chunks[j].seq)
               => i = j
    /\ \A i \in Slots : Occupied(i) => d.chunks[i].seq > d.currentSeq
\* C14 witness: every slot is occupied, part of the stream is in body, and
\* the last read delivered again a chunk that a slot other than the first
\* already holds.
C14_Witness ==
    /\ d.currentSeq # 0
    /\ \A i \in Slots : Occupied(i)
    /\ \E i \in Slots \ {0} : sent = <<AckLine(d.chunks[i].seq)>>
    /\ d.chunks[0].seq > d.chunks[NumChunks - 1].seq


\* C15: firstSeq and lastSeq are write-once: once either is not 0, no step
\* (processResponse_Guppy, the timer callback, open, cancel, the clock)
\* changes it.
C15_WatermarksWriteOnce ==
    [][/\ d.firstSeq # 0 => d'.firstSeq = d.firstSeq
       /\ d.lastSeq # 0 => d'.lastSeq = d.lastSeq]_vars
\* C15 witness: with both watermarks set and apart, the call underway has
\* stored an end-of-stream packet with a number that is neither of them.
C15_Witness ==
    /\ d.firstSeq # 0
    /\ d.lastSeq > d.firstSeq
    /\ proc.pc = "chunks"
    /\ \E raw \in {x \in TimedInputs : HasHeader(x)} :
         \E h \in {ParseHeader(d, raw)} :
           /\ proc.raw = raw
           /\ Acks(h)
           /\ h.payload = <<>>
           /\ h.seq \notin {d.firstSeq, d.lastSeq}


\* Free texts after the number of a status line: none, a lone separator, a
\* separator and a word, a word without separator, a text with a line feed.
FreeTexts == {<<>>, <<" ">>, <<" ", "m">>, <<"x", "m">>, <<" ", "m", LF, "x">>}
\* The free text as the table stores it: without its first character.
Stripped(text) == IF text = <<>> THEN <<>> ELSE SubSeq(text, 2, Len(text))
\* The state the table gives for the number of the first header.
TableState(num) ==
    IF num \in {<<"0">>, <<"5">>} THEN "invalidResponse"
    ELSE IF num = <<"1">> THEN "inputRequired"
    ELSE IF num = <<"3">> THEN "redirect"
    ELSE IF num = <<"4">> THEN "error"
    ELSE "inProgress"
\* The decimal numbers a first header may carry.
HeaderNumerals == {FormatInt(n) : n \in StatusCodes} \cup ChunkNumerals
\* The session has been opened and has recognized no header yet.
NoHeaderYet == d = open_Guppy(init_Guppy, d.lastSent)

\* C16: the first recognized header's number gives the state by the table:
\* 0 and 5 invalidResponse with the free text discarded, 1 inputRequired and
\* 3 redirect with the free text stored, 4 error, every other number
\* inProgress (with the free text stored); the stored text is the remainder
\* of the header without its first character.
C16_StatusTable ==
    NoHeaderYet =>
        \A num \in HeaderNumerals : \A text \in FreeTexts :
            \A p \in {<<>>, <<"#">> \o num} :
                \E r \in {processResponse_Guppy(d, Packet(num \o text, p), now).d} :
                    /\ r.state = TableState(num)
                    /\ r.meta = IF num \in {<<"0">>, <<"4">>, <<"5">>}
                                THEN <<>> ELSE Stripped(text)

\* The session right after open and a first header that the status table
\* classified, whatever its number, and that left its mark on the session.
AfterFirstHeader ==
    /\ ~NoHeaderYet
    /\ \E raw \in StatusPackets \cup AllChunkPackets :
           d = processResponse_Guppy(open_Guppy(init_Guppy, now), raw, now).d
\* A processResponse_Guppy step on a header whose number is a status code
\* of the table.
StatusDelivery ==
    \E raw \in StatusPackets : ProcessResponse(raw)

\* C17: only the first recognized header is read as a status line: once a
\* header has been classified by the table, a later header's number never
\* sets state (or the stored free text) from the table.
C17_StatusLineOnlyOnce ==
    [][(AfterFirstHeader /\ StatusDelivery)
           => (d'.state = d.state /\ d'.meta = d.meta)]_vars


\* The step notifies the timeout audience.
TimeoutRaised == timeouts' = timeouts + 1

\* C18: the session times out only for lack of data: when the timer
\* callback raises the timeout notification, no inbound data has been
\* processed since the first send (no chunk was seen, nothing was appended
\* to body); a session that receives and delivers chunks is not timed out.
C18_TimeoutOnlyWithoutData ==
    [][TimeoutRaised =>
           (d.firstSeq = 0 /\ d.currentSeq = 0 /\ d.body = <<>>)]_vars

\* C19: a timeout is reported through state: after the step in which the
\* timer callback finds the 6000 ms deadline passed, state is timedOut.
C19_TimeoutSetsState ==
    [][TimeoutRaised => d'.state = "timedOut"]_vars

\* C20: open_Guppy writes the request line once, and after it returns
\* state is inProgress, lastSent is the clock it read at that write and the
\* timer is scheduled, in every state open is called from.
C20_OpenStartsSession ==
    [][/\ OpenBegin => sent' = <<RequestLine>>
       /\ (OpenClock \/ OpenStamp) => sent' = <<>>
       /\ OpenStamp => /\ d'.state = "inProgress"
                       /\ d'.lastSent = proc.now
                       /\ sdlTimer' # 0]_vars


\* Two sessions agree on everything but the timer id: state, body, meta,
\* the three sequence numbers, the slots and the two timestamps.
SameSession(a, b) == [a EXCEPT !.timer = 0] = [b EXCEPT !.timer = 0]

\* C21: cancel_Guppy stops the timer and changes nothing else: state, body,
\* meta, firstSeq, lastSeq, currentSeq, the slots and the timestamps are as
\* before, and nothing is written to the socket.
C21_CancelOnlyStopsTimer ==
    [][Cancel => /\ SameSession(d', d)
                 /\ d'.timer = 0
                 /\ sdlTimer' = 0
                 /\ sent' = <<>>]_vars
\* C21 witness: a session in progress, with part of the stream in body and
\* a chunk waiting in a slot, was just cancelled.
C21_Witness ==
    /\ d.state = "inProgress"
    /\ d.timer = 0
    /\ sdlTimer = 0
    /\ sent = <<>>
    /\ d.currentSeq > d.firstSeq
    /\ d.firstSent # 0
    /\ Buffered # {}


\* C22: after cancel_Guppy returns no timer callback begins, and a callback
\* that was in flight when cancel_Guppy was called is excluded from it: SDL
\* calls no callback while the timer is removed, and cancel_Guppy does not
\* run while the callback is between its lock and its unlock.
C22_CancelExcludesTick ==
    [][/\ TickCall => sdlTimer # 0
       /\ Cancel => ~InCriticalSection]_vars


\* Reads that are empty or hold no CR LF: nothing, digits, a header without
\* its end, a CR alone, LF before CR.
NoHeaderReads ==
    {<<>>, <<"7">>, <<"6", " ", "m">>, <<"7", CR>>, <<"7", LF, CR>>}

\* C23: a processResponse_Guppy call on a read that is empty or holds no
\* CR LF is a no-op: it returns the state as it was, writes nothing and
\* leaves state, body, meta, the three sequence numbers and the slots (and
\* the timestamps) unchanged.
C23_NoHeaderIsNoOp ==
    d.state # "none" =>
        \A raw \in NoHeaderReads :
            LET r == processResponse_Guppy(d, raw, now)
            IN  /\ SameSession(r.d, d)
                /\ r.sent = <<>>
                /\ r.notify = FALSE
\* C23 witness: a session in progress with its timer scheduled, part of the
\* stream in body and a chunk waiting, whose last read wrote nothing.
C23_Witness ==
    /\ d.state = "inProgress"
    /\ sdlTimer # 0
    /\ sent = <<>>
    /\ notifyUpdate = FALSE
    /\ d.currentSeq # 0
    /\ Buffered # {}

\* C24: when the first recognized header carries a number n >= 6 and a
\* payload follows in the same read, that one processResponse_Guppy call
\* leaves state inProgress, writes exactly the ack of n, sets firstSeq and
\* currentSeq to n and makes body that payload.
C24_FirstChunkInOneCall ==
    NoHeaderYet =>
        \A num \in ChunkNumerals : \A text \in FreeTexts :
            \E r \in {processResponse_Guppy(
                          d, Packet(num \o text, <<"#">> \o num), now)} :
                /\ r.d.state = "inProgress"
                /\ r.sent = <<num \o CRLF>>
                /\ r.d.firstSeq >= FirstChunkSeq
                /\ FormatInt(r.d.firstSeq) = num
                /\ r.d.currentSeq = r.d.firstSeq
                /\ r.d.body = <<"#">> \o num

\* The end of the run of consecutive sequence numbers that starts at k and
\* goes on through the numbers the slots of dd hold.
RECURSIVE RunEnd(_, _)
RunEnd(dd, k) ==
    IF \E i \in Slots : dd.chunks[i].seq = k + 1
    THEN RunEnd(dd, k + 1) ELSE k
\* Some slot is free.
FreeSlot == \E i \in Slots : ~Occupied(i)
\* A processResponse_Guppy step on chunk n with its payload.
ChunkDelivery(n) == ProcessResponse(Packet(FormatInt(n), Data(n)))

\* C25: a chunk inside the window numbered above currentSeq + 1 that arrives
\* while a slot is free is buffered and leaves body and currentSeq as they
\* are; when the missing chunk currentSeq + 1 arrives later (a slot being
\* free for it), that same call appends it and every consecutively numbered
\* buffered chunk after it.
C25_BufferedThenDrained ==
    [][(d.state = "inProgress" /\ d.currentSeq # 0 /\ FreeSlot) =>
         /\ \A n \in ChunkSeqs :
              (/\ n > d.currentSeq + 1
               /\ d.lastSeq = 0 \/ n <= d.lastSeq
               /\ ChunkDelivery(n))
              => /\ \E i \in Slots : d'.chunks[i].seq = n
                 /\ d'.body = d.body
                 /\ d'.currentSeq = d.currentSeq
         /\ ((d.lastSeq = 0 \/ d.currentSeq + 1 <= d.lastSeq)
                 /\ ChunkDelivery(d.currentSeq + 1))
              => d'.currentSeq = RunEnd(d, d.currentSeq + 1)]_vars

\* C26: the drain of processChunks_Guppy_ runs to a fixed point: when a
\* processResponse_Guppy call has returned, no slot holds the chunk to
\* append next (currentSeq + 1, or firstSeq while currentSeq is unset).
C26_DrainFixedPoint == \A i \in Slots : ~IsNextChunk(d, i)


\* A processResponse_Guppy step on a read that holds a header.
HeaderDelivery ==
    \E raw \in {x \in Inputs : HasHeader(x)} : ProcessResponse(raw)
\* Every chunk after currentSeq + 1 and before lastSeq waits in a slot: only
\* chunk currentSeq + 1 is missing.
OneChunkMissing ==
    /\ d.state = "inProgress"
    /\ d.currentSeq # 0
    /\ d.lastSeq # 0
    /\ d.currentSeq + 1 < d.lastSeq
    /\ \A k \in (d.currentSeq + 2)..(d.lastSeq - 1) : k \in Buffered
    /\ FreeSlot

\* C27: at the end of every processResponse_Guppy call that parsed a
\* header, if lastSeq is known and currentSeq = lastSeq - 1 then state is
\* finished; in particular the call that delivers the last missing chunk
\* ends with state finished.
C27_FinishedWhenComplete ==
    [][/\ HeaderDelivery =>
              ((d'.lastSeq # 0 /\ d'.currentSeq = d'.lastSeq - 1)
                   => d'.state = "finished")
       /\ (OneChunkMissing /\ ChunkDelivery(d.currentSeq + 1))
              => d'.state = "finished"]_vars


\* C28: when a processResponse_Guppy call has returned a state other than
\* inProgress the timer is removed: while state is such a value and no call
\* is underway no timer is scheduled, so no callback begins after the return
\* and none that does writes a request line or an ack.
C28_TerminalStopsTimer ==
    (d.state \notin {"none", "inProgress"} /\ ~InProcess)
        => (sdlTimer = 0 /\ d.timer = 0)
\* C28 witness: the session got a status line that ended it, and since then
\* enough time has passed for a running timer to have sent the request again.
C28_Witness ==
    /\ d.state = "inputRequired"
    /\ proc.pc = "idle"
    /\ tick.pc = "idle"
    /\ sdlTimer = 0
    /\ d.firstSeq = 0
    /\ now >= d.lastSent + RequestRetryMs
    /\ timeouts = 0


\* The guards on the sequence numbers of the two resend rules of the timer
\* callback.
RequestRule == d.firstSeq = 0
AckRule == d.currentSeq # 0

\* C29: the request-resend rule and the ack-resend rule exclude each other
\* in every reachable state: currentSeq is set only if firstSeq is set, so
\* 'firstSeq unknown' and 'currentSeq set' are never both true.
C29_ResendRulesExclusive ==
    /\ d.currentSeq # 0 => d.firstSeq # 0
    /\ ~(RequestRule /\ AckRule)
\* C29 witness: the callback has written the ack of currentSeq again, at
\* least 1000 ms after the first send, and is about to set lastSent.
C29_Witness ==
    /\ AckRule
    /\ ~RequestRule
    /\ sdlTimer # 0
    /\ tick.pc = "stamp"
    /\ sent = <<AckLine(d.currentSeq)>>
    /\ tick.now >= d.firstSent + RequestRetryMs

\* C30: a run of the timer callback before the deadline writes at most one
\* line: the request line only if firstSeq is unknown, the socket is
\* connected and 1000 ms have passed since lastSent; otherwise the ack of
\* currentSeq only if currentSeq is set and 500 ms have passed since
\* lastSent; otherwise nothing. lastSent changes exactly when a line is
\* written (to the clock the callback read), and no step of the callback
\* changes another field. The rules are those of the session at the write.
C30_TickWritesByRule ==
    [][/\ TickRequestWrite =>
              (d.firstSeq = 0 /\ tick.now >= d.lastSent + RequestRetryMs)
       /\ TickAckWrite =>
              /\ d.currentSeq # 0
              /\ tick.now >= d.lastSent + AckRetryMs
              /\ sent' = <<AckLine(d.currentSeq)>>
       /\ TickStamp => d' = [d EXCEPT !.lastSent = tick.now]
       /\ (TickStep /\ ~TickStamp) => d' = d]_vars


\* A processResponse_Guppy step on a read whose header does not start with
\* a decimal digit.
NonDigitDelivery == ProcessResponse(Packet(<<"x">>, <<>>))

\* C31: a header that does not start with a decimal digit sets state to
\* invalidResponse and processing stops there: the call writes no ack,
\* leaves body, the three sequence numbers and the slots as they are, and
\* returns invalidResponse.
C31_NonDigitHeaderInvalid ==
    [][NonDigitDelivery =>
           /\ d'.state = "invalidResponse"
           /\ sent' = <<>>
           /\ d'.body = d.body
           /\ d'.firstSeq = d.firstSeq
           /\ d'.lastSeq = d.lastSeq
           /\ d'.currentSeq = d.currentSeq
           /\ d'.chunks = d.chunks]_vars


\* C32: a processResponse_Guppy call that starts in an opened session whose
\* state is not inProgress changes neither the slots nor currentSeq nor
\* body.
C32_NotInProgressFrame ==
    [][(d.state \notin {"none", "inProgress"} /\ AnyProcess) =>
           /\ d'.chunks = d.chunks
           /\ d'.currentSeq = d.currentSeq
           /\ d'.body = d.body]_vars


\* C33: in a session in progress, an empty chunk that arrives while lastSeq
\* is unknown sets lastSeq to its number and is not stored (the slots and
\* body stay as they are); an empty chunk that arrives once lastSeq is known
\* leaves lastSeq as it is.
C33_TerminatorRecordedNotStored ==
    d.state = "inProgress" =>
        \A seq \in ChunkSeqs :
            \E s \in {storeChunk_Guppy_(d, seq, <<>>)} :
                IF d.lastSeq = 0
                THEN /\ s.lastSeq = seq
                     /\ s.chunks = d.chunks
                     /\ s.body = d.body
                ELSE s.lastSeq = d.lastSeq
\* C33 witness: the last read was the first end-of-stream packet, taken
\* while a chunk was buffered and a gap was open: its number is lastSeq, it
\* was acknowledged, and no slot holds it.
C33_Witness ==
    /\ d.state = "inProgress"
    /\ d.lastSeq # 0
    /\ d.currentSeq # 0
    /\ d.currentSeq < d.lastSeq - 1
    /\ sent = <<AckLine(d.lastSeq)>>
    /\ Buffered # {}
    /\ d.lastSeq \notin Buffered


\* C34: in a session in progress, when a chunk that passes the filter of
\* storeChunk_Guppy_ carries a number some slot already holds, that slot
\* holds the newly received payload after the call and no other slot is
\* changed.
C34_DuplicateRefreshed ==
    d.state = "inProgress" =>
        \A seq \in ChunkSeqs : \A data \in Payloads(seq) : \A i \in Slots :
            (/\ d.chunks[i].seq = seq
             /\ Admissible(d, seq)
             /\ ~(d.lastSeq = 0 /\ data = <<>>))
            => storeChunk_Guppy_(d, seq, data).chunks =
                   [d.chunks EXCEPT ![i] = [seq |-> seq, data |-> data]]


\* C35: whenever state is finished, lastSeq is known and currentSeq is
\* lastSeq - 1; this stays so in every later state of the finished session.
C35_FinishedMeansComplete ==
    d.state = "finished" => (d.lastSeq # 0 /\ d.currentSeq = d.lastSeq - 1)

\* C36: whenever lastSeq is known, currentSeq is below it: no chunk numbered
\* lastSeq or above is ever appended to body.
C36_CurrentBelowLast ==
    d.lastSeq # 0 => d.currentSeq < d.lastSeq


\* C37: an ack written by processResponse_Guppy for a data chunk inside the
\* window and above currentSeq is an ack of a chunk the session keeps: after
\* the call the chunk is in body or in a slot.  A chunk dropped because
\* every slot is taken is not acknowledged.
C37_AckOnlyForKeptChunk ==
    [][\A n \in ChunkSeqs :
          (/\ d.state = "inProgress"
           /\ d.currentSeq # 0
           /\ n > d.currentSeq
           /\ InWindow(n)
           /\ d.lastSeq # n
           /\ ChunkDelivery(n)
           /\ sent' = <<AckLine(n)>>)
          => \/ d'.currentSeq >= n
             \/ \E i \in Slots : d'.chunks[i].seq = n]_vars


\* C38: lastSent never decreases, whatever the interleaving of the timer
\* callback with processResponse_Guppy and open_Guppy.
C38_LastSentMonotonic ==
    [][d'.lastSent >= d.lastSent]_vars


\* C39: while the session is in progress one of the two resend rules of the
\* timer callback can apply: there is no reachable state in progress in
\* which, no call being underway, firstSeq is known and currentSeq is still
\* unset.
C39_ResendRuleApplicable ==
    (d.state = "inProgress" /\ ~InProcess)
        => (d.firstSeq = 0 \/ d.currentSeq # 0)

====
